---- MODULE Spec2Model ----
(***************************************************************************)
(* BlazeSQL MCP server: the blazesql_query tool handler (index.ts) and the *)
(* request adapter queryBlazeSQL (blazesql.ts), with the remote endpoint,  *)
(* the transport and the timeout signal as the environment.                *)
(***************************************************************************)
EXTENDS Integers, Sequences, FiniteSets, TLC

(***************************************************************************)
(* Bounds of the model.                                                    *)
(***************************************************************************)
\* Number of tool invocations that may be in flight at once.
MaxCalls == 2

Calls == 1..MaxCalls

(***************************************************************************)
(* JavaScript values.  A value is a record tagged by its typeof-like kind. *)
(* A string holds its text as a sequence of tokens, the empty string as    *)
(* the empty sequence.  An object parsed from a response body maps every   *)
(* field name of the remote contract to a value, an absent field to        *)
(* undefined.                                                              *)
(***************************************************************************)
Undef == [t |-> "undefined"]
Null == [t |-> "null"]
S(s) == [t |-> "string", s |-> s]
N(n) == [t |-> "number", n |-> n]
B(b) == [t |-> "boolean", b |-> b]
Arr(a) == [t |-> "array", a |-> a]

Fields ==
  {"success", "message", "query", "agent_response", "data_result", "error", "error_code"}

\* The order in which the bodies below list their keys.
KeyOrder ==
  <<"success", "message", "query", "agent_response", "data_result", "error", "error_code">>

NoFields == [f \in Fields |-> Undef]
Obj(f) == [t |-> "object", f |-> f]
\* A data_result table: ordered columns, each <<name, array of scalars>>.
Table(cols) == [t |-> "table", cols |-> cols]

\* JavaScript truthiness, as used by !x, x || y and if (x).
Truthy(v) ==
  CASE v.t = "undefined" -> FALSE
    [] v.t = "null" -> FALSE
    [] v.t = "string" -> v.s # <<>>
    [] v.t = "number" -> v.n # 0
    [] v.t = "boolean" -> v.b
    [] OTHER -> TRUE

\* a || b
JsOr(a, b) == IF Truthy(a) THEN a ELSE b

\* a ?? b
Nullish(a, b) == IF a.t \in {"undefined", "null"} THEN b ELSE a

\* Reading v.name throws a TypeError on null and undefined.
PropThrows(v) == v.t \in {"undefined", "null"}

\* v.name for a v on which the read does not throw.
Prop(v, name) == IF v.t = "object" THEN v.f[name] ELSE Undef

(***************************************************************************)
(* Text.  A string built by the program is a sequence of tokens; template  *)
(* literals concatenate the tokens of their parts.                         *)
(***************************************************************************)
Digit == <<"0", "1", "2", "3", "4", "5", "6", "7", "8", "9">>

RECURSIVE NumStr(_)
\* Decimal rendering of a natural number, one token per digit.
NumStr(n) == IF n < 10 THEN <<Digit[n + 1]>> ELSE NumStr(n \div 10) \o <<Digit[(n % 10) + 1]>>

\* `${v}` in a template literal.
ToStr(v) ==
  CASE v.t = "undefined" -> <<"undefined">>
    [] v.t = "null" -> <<"null">>
    [] v.t = "string" -> v.s
    [] v.t = "number" -> NumStr(v.n)
    [] v.t = "boolean" -> IF v.b THEN <<"true">> ELSE <<"false">>
    [] OTHER -> <<"[object Object]">>

RECURSIVE Indent(_)
Indent(d) == IF d = 0 THEN <<>> ELSE <<"  ">> \o Indent(d - 1)

\* JSON.stringify of a scalar; undefined inside an array is written as null.
JsonScalar(v) ==
  CASE v.t = "string" -> <<"\"">> \o ToStr(v) \o <<"\"">>
    [] v.t = "number" -> NumStr(v.n)
    [] v.t = "boolean" -> ToStr(v)
    [] OTHER -> <<"null">>

RECURSIVE JsonItems(_, _)
\* The items of an array, one per line at depth d, separated by commas.
JsonItems(a, d) ==
  IF a = <<>> THEN <<>>
  ELSE <<"\n">> \o Indent(d) \o JsonScalar(Head(a))
       \o (IF Len(a) > 1 THEN <<",">> ELSE <<>>) \o JsonItems(Tail(a), d)

\* JSON.stringify(array, null, 2) at depth d.
JsonArray(a, d) ==
  IF a = <<>> THEN <<"[]">>
  ELSE <<"[">> \o JsonItems(a, d + 1) \o <<"\n">> \o Indent(d) \o <<"]">>

RECURSIVE JsonCols(_, _)
\* The members of a table object, one per line at depth d.
JsonCols(cols, d) ==
  IF cols = <<>> THEN <<>>
  ELSE <<"\n">> \o Indent(d) \o <<"\"", Head(cols)[1], "\"", ": ">>
       \o JsonArray(Head(cols)[2].a, d)
       \o (IF Len(cols) > 1 THEN <<",">> ELSE <<>>) \o JsonCols(Tail(cols), d)

RECURSIVE JsonItemsCompact(_)
JsonItemsCompact(a) ==
  IF a = <<>> THEN <<>>
  ELSE JsonScalar(Head(a)) \o (IF Len(a) > 1 THEN <<",">> ELSE <<>>) \o JsonItemsCompact(Tail(a))

RECURSIVE JsonColsCompact(_)
JsonColsCompact(cols) ==
  IF cols = <<>> THEN <<>>
  ELSE <<"\"", Head(cols)[1], "\"", ":", "[">> \o JsonItemsCompact(Head(cols)[2].a) \o <<"]">>
       \o (IF Len(cols) > 1 THEN <<",">> ELSE <<>>) \o JsonColsCompact(Tail(cols))

\* JsonPretty without the indent argument: JSON.stringify(v).
JsonCompact(v) ==
  CASE v.t = "table" -> <<"{">> \o JsonColsCompact(v.cols) \o <<"}">>
    [] v.t = "array" -> <<"[">> \o JsonItemsCompact(v.a) \o <<"]">>
    [] OTHER -> JsonScalar(v)

\* JSON.stringify(v, null, 2) for the values a data_result can hold.
JsonPretty(v) ==
  CASE v.t = "table" ->
         IF v.cols = <<>> THEN <<"{}">>
         ELSE <<"{">> \o JsonCols(v.cols, 1) \o <<"\n", "}">>
    [] v.t = "array" -> JsonArray(v.a, 0)
    [] OTHER -> JsonScalar(v)

\* Whether token sequence part occurs in text as a contiguous run.
Contains(text, part) ==
  \E i \in 0..(Len(text) - Len(part)) :
    \A j \in 1..Len(part) : text[i + j] = part[j]

\* The first position at which part starts in text, 0 when it does not occur.
IndexOf(text, part) ==
  IF Contains(text, part)
  THEN CHOOSE i \in 1..Len(text) :
         /\ i + Len(part) - 1 <= Len(text)
         /\ \A j \in 1..Len(part) : text[i + j - 1] = part[j]
         /\ \A k \in 1..(i - 1) :
              ~(k + Len(part) - 1 <= Len(text) /\ \A j \in 1..Len(part) : text[k + j - 1] = part[j])
  ELSE 0

(***************************************************************************)
(* The inputs the environment draws from.                                  *)
(***************************************************************************)
\* Arguments a caller of the module passes to queryBlazeSQL.
DirectDbIds == {S(<<>>), S(<<"db1">>)}

DirectRequests == {S(<<"q1">>)}

\* Values a client may send for db_id: missing, empty, a string, a number.
DbIdValues == {Undef, S(<<>>), S(<<"db1">>), N(42)}

\* Values a client may send for natural_language_request.
RequestValues == {Undef, S(<<>>), S(<<"q1">>), N(7)}

\* Values of process.env.BLAZE_API_KEY at process start.
EnvKeys == {Undef, S(<<>>), S(<<"sk-1">>)}

\* HTTP statuses the remote answers with.
Statuses == {200, 403, 500}

Table1 ==
  Table(<< <<"city", Arr(<<S(<<"NYC">>), Null>>)>>, <<"n", Arr(<<N(1), N(25)>>)>> >>)

SuccessBody ==
  Obj([NoFields EXCEPT !["success"] = B(TRUE), !["message"] = S(<<"ok">>),
                       !["query"] = S(<<"SELECT 1">>),
                       !["agent_response"] = S(<<"Two cities.">>),
                       !["data_result"] = Table1])

\* A success body without query and data_result.
PartialSuccessBody ==
  Obj([NoFields EXCEPT !["success"] = B(TRUE), !["agent_response"] = S(<<"Two cities.">>)])

\* A success body without query.
NoQueryBody ==
  Obj([NoFields EXCEPT !["success"] = B(TRUE), !["agent_response"] = S(<<"Two cities.">>),
                       !["data_result"] = Table1])

\* A success body without data_result.
NoDataBody ==
  Obj([NoFields EXCEPT !["success"] = B(TRUE), !["agent_response"] = S(<<"Two cities.">>),
                       !["query"] = S(<<"SELECT 1">>)])

ErrorBody ==
  Obj([NoFields EXCEPT !["success"] = B(FALSE), !["error"] = S(<<"X">>),
                       !["error_code"] = N(403)])

ErrorOnlyBody == Obj([NoFields EXCEPT !["error"] = S(<<"X">>)])

CodeOnlyBody == Obj([NoFields EXCEPT !["error_code"] = N(403)])

EmptyBody == Obj(NoFields)

\* An error body whose message is empty and whose code is zero.
FalsyErrorBody ==
  Obj([NoFields EXCEPT !["success"] = B(FALSE), !["error"] = S(<<>>), !["error_code"] = N(0)])

\* An error body whose error is a number and whose error_code is a string.
MistypedErrorBody ==
  Obj([NoFields EXCEPT !["success"] = B(FALSE), !["error"] = N(42),
                       !["error_code"] = S(<<"E42">>)])

\* The JSON values a response body may parse to.
JsonBodies ==
  {SuccessBody, PartialSuccessBody, NoQueryBody, NoDataBody, ErrorBody, ErrorOnlyBody,
   CodeOnlyBody, FalsyErrorBody, MistypedErrorBody, EmptyBody, Null}

\* A body that is not JSON.
Unparseable == [t |-> "unparseable"]

(***************************************************************************)
(* blazesql.ts: queryBlazeSQL                                              *)
(***************************************************************************)
timeoutMilliseconds == 120000

\* response.ok
ResponseOk(status) == status >= 200 /\ status <= 299

\* An Error object: its name and its message.
Err(name, message) == [name |-> name, message |-> message]

MissingKeyError ==
  Err("Error", <<"BlazeSQL API key is missing.", " Ensure BLAZE_API_KEY is set in your environment.">>)

\* What fetch and response.json() reject with when the timeout signal fires.
AbortErr == Err("AbortError", <<"The operation was aborted.">>)

\* What fetch and response.json() reject with on a connection failure.
TransportErr == Err("FetchError", <<"request to ", "https://api.blazesql.com/natural_language_query_api", " failed">>)

\* What response.json() rejects with on a body that is not JSON.
ParseErr == Err("SyntaxError", <<"Unexpected token in JSON">>)

\* A BlazeSQLErrorResponse literal.
Failure(error, code) ==
  Obj([NoFields EXCEPT !["success"] = B(FALSE), !["error"] = error, !["error_code"] = code])

\* RequestBody with the two caller fields exchanged.
RequestBodySwapped(dbId, naturalLanguageRequest, key) ==
  [db_id |-> naturalLanguageRequest, natural_language_request |-> dbId, api_key |-> key]

\* const requestBody = {db_id, natural_language_request, api_key}
RequestBody(dbId, naturalLanguageRequest, key) ==
  [db_id |-> dbId, natural_language_request |-> naturalLanguageRequest, api_key |-> key]

TimeoutMessage ==
  <<"Request timed out after ">> \o NumStr(timeoutMilliseconds \div 1000)
    \o <<" seconds.", " The query might be too complex or the API might be slow.">>

\* The outer catch: a timeout becomes 504, anything else 500.
CatchOuter(error) ==
  IF error.name = "TimeoutError" \/ error.name = "AbortError"
  THEN Failure(S(TimeoutMessage), N(504))
  ELSE Failure(S(error.message), N(500))

\* CatchParse reporting the generic code 500 instead of the status.
CatchParseGeneric500(status) ==
  Failure(S(<<"HTTP error! status: ">> \o NumStr(status) \o <<".", " Failed to parse error response.">>),
          N(500))

\* The inner catch of the !response.ok branch: whatever was thrown is dropped.
CatchParse(status) ==
  Failure(S(<<"HTTP error! status: ">> \o NumStr(status) \o <<".", " Failed to parse error response.">>),
          N(status))

\* NotOkResult using the body's error and error_code only when it has both.
NotOkResultAllOrNothing(status, errorData) ==
  IF PropThrows(errorData)
  THEN CatchParse(status)
  ELSE IF Truthy(Prop(errorData, "error")) /\ Truthy(Prop(errorData, "error_code"))
       THEN Failure(Prop(errorData, "error"), Prop(errorData, "error_code"))
       ELSE Failure(S(<<"HTTP error! status: ">> \o NumStr(status)), N(status))

\* NotOkResult taking the code from the HTTP status, not from the body.
NotOkResultStatusCode(status, errorData) ==
  IF PropThrows(errorData)
  THEN CatchParse(status)
  ELSE Failure(JsOr(Prop(errorData, "error"), S(<<"HTTP error! status: ">> \o NumStr(status))),
               N(status))

\* The !response.ok branch once response.json() has resolved to errorData.
NotOkResult(status, errorData) ==
  IF PropThrows(errorData)
  THEN CatchParse(status)
  ELSE Failure(JsOr(Prop(errorData, "error"), S(<<"HTTP error! status: ">> \o NumStr(status))),
               JsOr(Prop(errorData, "error_code"), N(status)))

\* OkResult taking every body on a success status for a success.
OkResultAssumeSuccess(data) ==
  IF data.t = "object" THEN Obj([data.f EXCEPT !["success"] = B(TRUE)]) ELSE data

\* The response.ok branch once response.json() has resolved: return data.
OkResult(data) == data

RECURSIVE JsonMembers(_, _)
\* The members of an object literal in the given order; JSON.stringify leaves
\* out a member whose value is undefined.
JsonMembers(o, names) ==
  IF names = <<>> THEN <<>>
  ELSE LET rest == JsonMembers(o, Tail(names))
           v == o[Head(names)]
       IN IF v.t = "undefined" THEN rest
          ELSE <<"\"", Head(names), "\"", ":">> \o JsonScalar(v)
               \o (IF rest = <<>> THEN <<>> ELSE <<",">>) \o rest

\* body: JSON.stringify(requestBody), the text that goes on the wire.
SentBody(requestBody) ==
  <<"{">> \o JsonMembers(requestBody, <<"db_id", "natural_language_request", "api_key">>)
    \o <<"}">>

\* The lines queryBlazeSQL writes to stderr.
LogSending ==
  <<"Sending request to BlazeSQL with ">> \o NumStr(timeoutMilliseconds \div 1000)
    \o <<"s timeout...">>

LogStatus(status) == <<"Response status: ">> \o NumStr(status)

LogTimedOut ==
  <<"BlazeSQL request timed out after ">> \o NumStr(timeoutMilliseconds \div 1000)
    \o <<" seconds.">>

\* console.error('Error querying BlazeSQL:', error)
LogError(error) == <<"Error querying BlazeSQL:", " ", error.name, ": ">> \o error.message

\* What the outer catch logs for error.
CatchOuterLog(error) ==
  IF error.name = "TimeoutError" \/ error.name = "AbortError"
  THEN <<LogTimedOut>>
  ELSE <<LogError(error)>>

(***************************************************************************)
(* index.ts: the blazesql_query tool registered with server.tool()         *)
(***************************************************************************)
\* z.string(): the value must be a string; the empty string passes.
ZodString(v) == v.t = "string"

\* The raw shape {db_id: z.string(), natural_language_request: z.string()}.
SchemaAccepts(args) ==
  ZodString(args.db_id) /\ ZodString(args.natural_language_request)

\* A tool result: content blocks and the isError flag (absent reads as FALSE).
ToolResult(text, isError) ==
  [kind |-> "result", content |-> << [type |-> "text", text |-> text] >>,
   isError |-> isError, error |-> <<>>]

\* The call is refused before the handler runs: the arguments fail the schema.
InvalidParams ==
  [kind |-> "invalid_params", content |-> <<>>, isError |-> TRUE, error |-> <<"Invalid arguments">>]

\* The handler threw: the call ends with the thrown error, not with a result.
Thrown(message) ==
  [kind |-> "throw", content |-> <<>>, isError |-> TRUE, error |-> message]

NoResult == [kind |-> "none", content |-> <<>>, isError |-> FALSE, error |-> <<>>]

EmptyObject == Table(<<>>)

\* A Markdown code fence: three backquotes, written here with apostrophes.
Fence == "'''"

\* SuccessText without the ?? defaults for query and data_result.
SuccessTextNoDefaults(result) ==
  <<"**Agent Response:**", "\n">> \o ToStr(Prop(result, "agent_response"))
    \o <<"\n", "\n", "**Generated SQL:**", "\n", Fence, "sql", "\n">>
    \o ToStr(Prop(result, "query"))
    \o <<"\n", Fence, "\n", "\n", "**Data Result (JSON):**", "\n", Fence, "json", "\n">>
    \o (IF Prop(result, "data_result") = Undef THEN <<>>
        ELSE JsonPretty(Prop(result, "data_result")))
    \o <<"\n", Fence, "\n">>

\* The text block of the success branch.
SuccessText(result) ==
  <<"**Agent Response:**", "\n">> \o ToStr(Prop(result, "agent_response"))
    \o <<"\n", "\n", "**Generated SQL:**", "\n", Fence, "sql", "\n">>
    \o ToStr(Nullish(Prop(result, "query"), S(<<"-- No SQL query returned">>)))
    \o <<"\n", Fence, "\n", "\n", "**Data Result (JSON):**", "\n", Fence, "json", "\n">>
    \o JsonPretty(Nullish(Prop(result, "data_result"), EmptyObject))
    \o <<"\n", Fence, "\n">>

\* The text block of the failure branch.
FailureText(result) == <<"BlazeSQL API Error: ">> \o ToStr(Prop(result, "error"))

\* The two lines the handler logs before it calls the adapter.
HandlerEntryLog(args) ==
  << <<"Executing BlazeSQL query for DB ID: ">> \o ToStr(args.db_id),
     <<"Natural Language Request: ", "\"">> \o ToStr(args.natural_language_request)
       \o <<"\"">> >>

\* The line the handler logs once the adapter's promise has resolved to result.
HandlerResultLog(result) ==
  IF PropThrows(result) THEN <<>>
  ELSE IF Truthy(Prop(result, "success"))
       THEN << <<"BlazeSQL query successful.", " Returning structured results as formatted text.">> >>
       ELSE << <<"BlazeSQL API Error (Code ">> \o ToStr(Prop(result, "error_code"))
                 \o <<"): ">> \o ToStr(Prop(result, "error")) >>

\* The lines written to stderr while the module loads.
MissingKeyLog ==
  << <<"FATAL ERROR: BLAZE_API_KEY environment variable is not set.">>,
     <<"Please create a .env file based on .env.example and add your API key.">> >>

RegisteredLog ==
  << <<"API Key loaded successfully.">>,
     <<"Tool 'blazesql_query' registered using McpServer.">>,
     <<"BlazeSQL MCP Server configuring...">>,
     <<"Connecting transport...">> >>

ConnectedLog == << <<"BlazeSQL MCP Server is running and connected via stdio.">> >>

ConnectFailedLog ==
  << <<"Server encountered fatal error:", " ", "Error", ": ", "connect failed">> >>

\* HandlerResult throwing on a Failure instead of returning an error result.
HandlerResultThrowing(result) ==
  IF PropThrows(result)
  THEN Thrown(<<"TypeError: Cannot read properties of ">> \o ToStr(result))
  ELSE IF Truthy(Prop(result, "success"))
       THEN ToolResult(SuccessText(result), FALSE)
       ELSE Thrown(FailureText(result))

\* The handler after `await queryBlazeSQL(...)` has resolved to result.
HandlerResult(result) ==
  IF PropThrows(result)
  THEN Thrown(<<"TypeError: Cannot read properties of ">> \o ToStr(result))
  ELSE IF Truthy(Prop(result, "success"))
       THEN ToolResult(SuccessText(result), FALSE)
       ELSE ToolResult(FailureText(result), TRUE)

(***************************************************************************)
(* State.                                                                  *)
(***************************************************************************)
VARIABLES
  apiKey,   \* process.env.BLAZE_API_KEY as read at module load
  proc,     \* "starting", "registered", "serving", "exited", or "library" (adapter
            \* imported alone)
  bootLog,  \* the lines written to stderr by module load and main()
  call      \* the invocations in flight, by slot

vars == <<apiKey, proc, bootLog, call>>

NoArgs == [db_id |-> Undef, natural_language_request |-> Undef]

\* A free slot.
Idle ==
  [pc |-> "idle", args |-> NoArgs, key |-> Undef, invoked |-> 0, posts |-> 0,
   req |-> Undef, status |-> 0, body |-> Undef, thrown |-> "none", thrownAt |-> "none",
   outcome |-> Undef, result |-> NoResult, log |-> <<>>, sent |-> <<>>, waits |-> 0,
   tool |-> "none"]

Init ==
  /\ apiKey \in EnvKeys
  /\ proc = "starting"
  /\ bootLog = <<>>
  /\ call = [c \in Calls |-> Idle]

\* Startup registering the tool whatever the key.
StartupNoKeyCheck ==
  /\ proc = "starting"
  /\ proc' = "registered"
  /\ bootLog' = RegisteredLog
  /\ UNCHANGED <<apiKey, call>>

\* Module load of index.ts: exit when the key is missing, else create the
\* server and register the tool.
Startup ==
  /\ proc = "starting"
  /\ proc' = IF ~Truthy(apiKey) THEN "exited" ELSE "registered"
  /\ bootLog' = IF ~Truthy(apiKey) THEN MissingKeyLog ELSE RegisteredLog
  /\ UNCHANGED <<apiKey, call>>

\* main(): server.connect(transport) resolves and the server takes calls.
Connect ==
  /\ proc = "registered"
  /\ proc' = "serving"
  /\ bootLog' = bootLog \o ConnectedLog
  /\ UNCHANGED <<apiKey, call>>

\* main().catch: server.connect(transport) rejects and the process exits.
ConnectFails ==
  /\ proc = "registered"
  /\ proc' = "exited"
  /\ bootLog' = bootLog \o ConnectFailedLog
  /\ UNCHANGED <<apiKey, call>>

\* QueryStart as in the revision that logged the request body it was about to send.
QueryStartLoggingBody(r, dbId, naturalLanguageRequest, key) ==
  IF ~Truthy(key)
  THEN [r EXCEPT !.pc = "rejected", !.key = key, !.invoked = @ + 1,
                 !.thrown = "Error", !.thrownAt = "entry"]
  ELSE [r EXCEPT !.pc = "awaitFetch", !.key = key, !.invoked = @ + 1, !.posts = @ + 1,
                 !.req = RequestBody(dbId, naturalLanguageRequest, key),
                 !.sent = SentBody(RequestBody(dbId, naturalLanguageRequest, key)),
                 !.log = @ \o << <<"Request body: ">>
                                   \o SentBody(RequestBody(dbId, naturalLanguageRequest, key)) >>,
                 !.waits = @ + 1]

\* QueryStart without the key check: the request goes out whatever the key.
QueryStartNoKeyCheck(r, dbId, naturalLanguageRequest, key) ==
  [r EXCEPT !.pc = "awaitFetch", !.key = key, !.invoked = @ + 1, !.posts = @ + 1,
            !.req = RequestBody(dbId, naturalLanguageRequest, key),
            !.sent = SentBody(RequestBody(dbId, naturalLanguageRequest, key)),
            !.log = @ \o <<LogSending>>, !.waits = @ + 1]

\* queryBlazeSQL from its entry to its first await: the key check, the request
\* body, the timeout signal and the fetch call.
QueryStart(r, dbId, naturalLanguageRequest, key) ==
  IF ~Truthy(key)
  THEN [r EXCEPT !.pc = "rejected", !.key = key, !.invoked = @ + 1,
                 !.thrown = "Error", !.thrownAt = "entry"]
  ELSE [r EXCEPT !.pc = "awaitFetch", !.key = key, !.invoked = @ + 1, !.posts = @ + 1,
                 !.req = RequestBody(dbId, naturalLanguageRequest, key),
                 !.sent = SentBody(RequestBody(dbId, naturalLanguageRequest, key)),
                 !.log = @ \o <<LogSending>>, !.waits = @ + 1]

\* A tools/call request for blazesql_query arrives with the given arguments.
CallTool(c, args) ==
  /\ proc = "serving"
  /\ call[c].pc = "idle"
  /\ call' = [call EXCEPT ![c] =
       IF ~SchemaAccepts(args)
       THEN [Idle EXCEPT !.pc = "done", !.args = args, !.result = InvalidParams]
       ELSE QueryStart([Idle EXCEPT !.args = args, !.log = HandlerEntryLog(args)],
                       args.db_id, args.natural_language_request, apiKey)]
  /\ UNCHANGED <<apiKey, proc, bootLog>>

\* DirectCall answering from a cache: when another call with the same
\* arguments and key has returned, its outcome is handed back and nothing is sent.
DirectCallCached(c, dbId, naturalLanguageRequest, key) ==
  /\ proc = "library"
  /\ call[c].pc = "idle"
  /\ LET args == [db_id |-> dbId, natural_language_request |-> naturalLanguageRequest]
         hits == {d \in Calls : /\ call[d].pc = "returned"
                                /\ call[d].args = args /\ call[d].key = key}
     IN call' = [call EXCEPT ![c] =
          IF hits # {}
          THEN [Idle EXCEPT !.pc = "returned", !.args = args, !.key = key, !.invoked = 1,
                            !.outcome = call[CHOOSE d \in hits : TRUE].outcome]
          ELSE QueryStart([Idle EXCEPT !.args = args], dbId, naturalLanguageRequest, key)]
  /\ UNCHANGED <<apiKey, proc, bootLog>>

\* queryBlazeSQL called by a caller of the module with a key of its choosing.
DirectCall(c, dbId, naturalLanguageRequest, key) ==
  /\ proc = "library"
  /\ call[c].pc = "idle"
  /\ call' = [call EXCEPT ![c] =
       QueryStart([Idle EXCEPT !.args = [db_id |-> dbId,
                                         natural_language_request |-> naturalLanguageRequest]],
                  dbId, naturalLanguageRequest, key)]
  /\ UNCHANGED <<apiKey, proc, bootLog>>

\* FetchResolves with one more await between the headers and the body read.
FetchResolvesExtraAwait(c, status) ==
  /\ call[c].pc = "awaitFetch"
  /\ call' = [call EXCEPT ![c].status = status,
                          ![c].log = @ \o <<LogStatus(status)>>,
                          ![c].waits = @ + 2,
                          ![c].pc = IF ~ResponseOk(status) THEN "awaitErrJson" ELSE "awaitJson"]
  /\ UNCHANGED <<apiKey, proc, bootLog>>

\* The response headers arrive: fetch resolves and the body read starts.
FetchResolves(c, status) ==
  /\ call[c].pc = "awaitFetch"
  /\ call' = [call EXCEPT ![c].status = status,
                          ![c].log = @ \o <<LogStatus(status)>>,
                          ![c].waits = @ + 1,
                          ![c].pc = IF ~ResponseOk(status) THEN "awaitErrJson" ELSE "awaitJson"]
  /\ UNCHANGED <<apiKey, proc, bootLog>>

\* AfterThrow retrying once: a failed first attempt sends the request again.
AfterThrowRetry(r, error) ==
  IF r.posts < 2
  THEN [r EXCEPT !.pc = "awaitFetch", !.posts = @ + 1, !.status = 0]
  ELSE [r EXCEPT !.pc = "returned", !.thrown = error.name, !.thrownAt = r.pc,
                 !.outcome = IF r.pc = "awaitErrJson" THEN CatchParse(r.status)
                             ELSE CatchOuter(error),
                 !.log = IF r.pc = "awaitErrJson" THEN @ ELSE @ \o CatchOuterLog(error)]

\* The adapter continues after the pending await threw error.
AfterThrow(r, error) ==
  [r EXCEPT !.pc = "returned", !.thrown = error.name, !.thrownAt = r.pc,
            !.outcome = IF r.pc = "awaitErrJson" THEN CatchParse(r.status)
                        ELSE CatchOuter(error),
            !.log = IF r.pc = "awaitErrJson" THEN @ ELSE @ \o CatchOuterLog(error)]

\* The 120 s timeout signal fires while an await is pending.
TimeoutFires(c) ==
  /\ call[c].pc \in {"awaitFetch", "awaitErrJson", "awaitJson"}
  /\ call' = [call EXCEPT ![c] = AfterThrow(call[c], AbortErr)]
  /\ UNCHANGED <<apiKey, proc, bootLog>>

\* The connection fails while an await is pending.
TransportFails(c) ==
  /\ call[c].pc \in {"awaitFetch", "awaitErrJson", "awaitJson"}
  /\ call' = [call EXCEPT ![c] = AfterThrow(call[c], TransportErr)]
  /\ UNCHANGED <<apiKey, proc, bootLog>>

\* The whole body arrives and is not JSON: response.json() rejects.
BodyUnparseable(c) ==
  /\ call[c].pc \in {"awaitErrJson", "awaitJson"}
  /\ call' = [call EXCEPT ![c] = AfterThrow([call[c] EXCEPT !.body = Unparseable], ParseErr)]
  /\ UNCHANGED <<apiKey, proc, bootLog>>

\* The whole body arrives and parses to data: response.json() resolves.
BodyParses(c, data) ==
  /\ call[c].pc \in {"awaitErrJson", "awaitJson"}
  /\ call' = [call EXCEPT ![c].pc = "returned", ![c].body = data,
                          ![c].outcome = IF call[c].pc = "awaitErrJson"
                                         THEN NotOkResult(call[c].status, data)
                                         ELSE OkResult(data)]
  /\ UNCHANGED <<apiKey, proc, bootLog>>

\* HandlerResume reading the adapter's value from a variable shared by all
\* invocations: it sees the value of whichever call returned last.
HandlerResumeShared(c) ==
  /\ proc = "serving"
  /\ call[c].pc \in {"returned", "rejected"}
  /\ LET others == {d \in Calls : d # c /\ call[d].pc = "returned"}
         seen == IF others = {} THEN call[c].outcome
                 ELSE call[CHOOSE d \in others : TRUE].outcome
     IN call' = [call EXCEPT ![c].pc = "done",
                             ![c].result = IF call[c].pc = "rejected"
                                           THEN Thrown(MissingKeyError.message)
                                           ELSE HandlerResult(seen),
                             ![c].log = IF call[c].pc = "rejected" THEN @
                                        ELSE @ \o HandlerResultLog(seen)]
  /\ UNCHANGED <<apiKey, proc, bootLog>>

\* HandlerResume letting an error thrown in the handler end the process.
HandlerResumeCrashing(c) ==
  /\ proc = "serving"
  /\ call[c].pc \in {"returned", "rejected"}
  /\ call' = [call EXCEPT ![c].pc = "done",
                          ![c].result = IF call[c].pc = "rejected"
                                        THEN Thrown(MissingKeyError.message)
                                        ELSE HandlerResult(call[c].outcome),
                          ![c].log = IF call[c].pc = "rejected" THEN @
                                     ELSE @ \o HandlerResultLog(call[c].outcome)]
  /\ proc' = IF call[c].pc = "rejected" \/ PropThrows(call[c].outcome)
             THEN "exited" ELSE proc
  /\ UNCHANGED <<apiKey, bootLog>>

\* The handler resumes after `await queryBlazeSQL(...)` and produces its result.
HandlerResume(c) ==
  /\ proc = "serving"
  /\ call[c].pc \in {"returned", "rejected"}
  /\ call' = [call EXCEPT ![c].pc = "done",
                          ![c].result = IF call[c].pc = "rejected"
                                        THEN Thrown(MissingKeyError.message)
                                        ELSE HandlerResult(call[c].outcome),
                          ![c].log = IF call[c].pc = "rejected" THEN @
                                     ELSE @ \o HandlerResultLog(call[c].outcome)]
  /\ UNCHANGED <<apiKey, proc, bootLog>>

\* The response is written to the client and the invocation is over.
Respond(c) ==
  /\ proc = "serving"
  /\ call[c].pc = "done"
  /\ call' = [call EXCEPT ![c] = Idle]
  /\ UNCHANGED <<apiKey, proc, bootLog>>

\* The caller of the module has taken the promise's outcome.
Settle(c) ==
  /\ proc = "library"
  /\ call[c].pc \in {"returned", "rejected"}
  /\ call' = [call EXCEPT ![c] = Idle]
  /\ UNCHANGED <<apiKey, proc, bootLog>>

Next ==
  \/ Startup
  \/ Connect
  \/ ConnectFails
  \/ \E c \in Calls : \E d \in DbIdValues, q \in RequestValues :
       CallTool(c, [db_id |-> d, natural_language_request |-> q])
  \/ \E c \in Calls : \E s \in Statuses : FetchResolves(c, s)
  \/ \E c \in Calls : TimeoutFires(c)
  \/ \E c \in Calls : TransportFails(c)
  \/ \E c \in Calls : BodyUnparseable(c)
  \/ \E c \in Calls : \E data \in JsonBodies : BodyParses(c, data)
  \/ \E c \in Calls : HandlerResume(c)
  \/ \E c \in Calls : Respond(c)

Spec == Init /\ [][Next]_vars

(***************************************************************************)
(* The adapter on its own: queryBlazeSQL is an exported function, callable *)
(* with any key.                                                           *)
(***************************************************************************)
InitAdapter ==
  /\ apiKey = Undef
  /\ proc = "library"
  /\ bootLog = <<>>
  /\ call = [c \in Calls |-> Idle]

NextAdapter ==
  \/ \E c \in Calls : \E d \in DirectDbIds, q \in DirectRequests, k \in EnvKeys :
       DirectCall(c, d, q, k)
  \/ \E c \in Calls : \E s \in Statuses : FetchResolves(c, s)
  \/ \E c \in Calls : TimeoutFires(c)
  \/ \E c \in Calls : TransportFails(c)
  \/ \E c \in Calls : BodyUnparseable(c)
  \/ \E c \in Calls : \E data \in JsonBodies : BodyParses(c, data)
  \/ \E c \in Calls : Settle(c)

AdapterSpec == InitAdapter /\ [][NextAdapter]_vars

(***************************************************************************)
(* The low-level variant of index.ts: a Server whose CallToolRequestSchema *)
(* handler checks the tool name and the arguments itself.                  *)
(***************************************************************************)
\* blazeSQLToolDefinition.name
ToolName == "blazesql_query"

\* Tool names a client may put in a tools/call request.
ToolNames == {ToolName, "other_tool"}

\* typeof v !== 'string' || !v is false: v is a non-empty string.
LowLevelValid(v) == v.t = "string" /\ Truthy(v)

\* JSON.stringify(v) for the values a member of structuredResult can hold.
StringifyCompact(v) ==
  CASE v.t = "table" -> <<"{">> \o JsonColsCompact(v.cols) \o <<"}">>
    [] v.t = "array" -> <<"[">> \o JsonItemsCompact(v.a) \o <<"]">>
    [] OTHER -> JsonScalar(v)

RECURSIVE StructuredMembers(_, _)
\* The members of structuredResult in the given order, undefined ones left out.
StructuredMembers(result, names) ==
  IF names = <<>> THEN <<>>
  ELSE LET rest == StructuredMembers(result, Tail(names))
           v == Prop(result, Head(names))
       IN IF v.t = "undefined" THEN rest
          ELSE <<"\"", Head(names), "\"", ":">> \o StringifyCompact(v)
               \o (IF rest = <<>> THEN <<>> ELSE <<",">>) \o rest

\* JSON.stringify(structuredResult)
LowLevelSuccessText(result) ==
  <<"{">> \o StructuredMembers(result, <<"agent_response", "query", "data_result">>)
    \o <<"}">>

\* The low-level handler after `await queryBlazeSQL(...)` has resolved to result.
LowLevelResult(result) ==
  IF PropThrows(result)
  THEN Thrown(<<"TypeError: Cannot read properties of ">> \o ToStr(result))
  ELSE IF Truthy(Prop(result, "success"))
       THEN ToolResult(LowLevelSuccessText(result), FALSE)
       ELSE Thrown(<<"BlazeSQL API Error: ">> \o ToStr(Prop(result, "error")))

\* The line the low-level handler logs once the adapter's promise has resolved.
LowLevelResultLog(result) ==
  IF PropThrows(result) THEN <<>>
  ELSE IF Truthy(Prop(result, "success"))
       THEN << <<"BlazeSQL query successful.",
                 " Returning structured object as compact string within content[type=text].">> >>
       ELSE << <<"BlazeSQL API Error (Code ">> \o ToStr(Prop(result, "error_code"))
                 \o <<"): ">> \o ToStr(Prop(result, "error")) >>

\* The error thrown for a tool name the registration does not handle.
NotHandled(name) == Thrown(<<"Tool '", name, "' not handled by BlazeSQL registration.">>)

NotHandledLog(name) ==
  << <<"CallTool request received for unknown tool '", name,
       "' within BlazeSQL registration.">> >>

LowLevelRegisteredLog ==
  << <<"API Key loaded successfully.">>,
     <<"Tool '", ToolName, "' registered.">>,
     <<"BlazeSQL MCP Server configuring...">>,
     <<"Connecting transport...">> >>

\* Module load of the low-level index.ts: the key check, then the Server and
\* its two request handlers.
LowLevelStartup ==
  /\ proc = "starting"
  /\ proc' = IF ~Truthy(apiKey) THEN "exited" ELSE "registered"
  /\ bootLog' = IF ~Truthy(apiKey) THEN MissingKeyLog ELSE LowLevelRegisteredLog
  /\ UNCHANGED <<apiKey, call>>

\* LowLevelCallTool reading and validating the arguments before it looks at
\* the tool name.
LowLevelCallToolArgsFirst(c, name, args) ==
  /\ proc = "serving"
  /\ call[c].pc = "idle"
  /\ call' = [call EXCEPT ![c] =
       IF ~LowLevelValid(args.db_id)
       THEN [Idle EXCEPT !.pc = "done", !.tool = name, !.args = args,
                         !.result = Thrown(<<"Missing or invalid 'db_id' argument.">>)]
       ELSE IF ~LowLevelValid(args.natural_language_request)
       THEN [Idle EXCEPT !.pc = "done", !.tool = name, !.args = args,
                         !.result = Thrown(<<"Missing or invalid 'natural_language_request' argument.">>)]
       ELSE IF name # ToolName
       THEN [Idle EXCEPT !.pc = "done", !.tool = name, !.args = args,
                         !.result = NotHandled(name), !.log = NotHandledLog(name)]
       ELSE QueryStart([Idle EXCEPT !.tool = name, !.args = args,
                                    !.log = HandlerEntryLog(args)],
                       args.db_id, args.natural_language_request, apiKey)]
  /\ UNCHANGED <<apiKey, proc, bootLog>>

\* A tools/call request for the tool called name arrives with the given
\* arguments; args in the call record are the arguments the handler has read.
LowLevelCallTool(c, name, args) ==
  /\ proc = "serving"
  /\ call[c].pc = "idle"
  /\ call' = [call EXCEPT ![c] =
       IF name # ToolName
       THEN [Idle EXCEPT !.pc = "done", !.tool = name,
                         !.result = NotHandled(name), !.log = NotHandledLog(name)]
       ELSE IF ~LowLevelValid(args.db_id)
       THEN [Idle EXCEPT !.pc = "done", !.tool = name, !.args = args,
                         !.result = Thrown(<<"Missing or invalid 'db_id' argument.">>)]
       ELSE IF ~LowLevelValid(args.natural_language_request)
       THEN [Idle EXCEPT !.pc = "done", !.tool = name, !.args = args,
                         !.result = Thrown(<<"Missing or invalid 'natural_language_request' argument.">>)]
       ELSE QueryStart([Idle EXCEPT !.tool = name, !.args = args,
                                    !.log = HandlerEntryLog(args)],
                       args.db_id, args.natural_language_request, apiKey)]
  /\ UNCHANGED <<apiKey, proc, bootLog>>

\* The low-level handler resumes after `await queryBlazeSQL(...)`.
LowLevelHandlerResume(c) ==
  /\ proc = "serving"
  /\ call[c].pc \in {"returned", "rejected"}
  /\ call' = [call EXCEPT ![c].pc = "done",
                          ![c].result = IF call[c].pc = "rejected"
                                        THEN Thrown(MissingKeyError.message)
                                        ELSE LowLevelResult(call[c].outcome),
                          ![c].log = IF call[c].pc = "rejected" THEN @
                                     ELSE @ \o LowLevelResultLog(call[c].outcome)]
  /\ UNCHANGED <<apiKey, proc, bootLog>>

NextLowLevel ==
  \/ LowLevelStartup
  \/ Connect
  \/ ConnectFails
  \/ \E c \in Calls : \E name \in ToolNames, d \in DbIdValues, q \in RequestValues :
       LowLevelCallTool(c, name, [db_id |-> d, natural_language_request |-> q])
  \/ \E c \in Calls : \E s \in Statuses : FetchResolves(c, s)
  \/ \E c \in Calls : TimeoutFires(c)
  \/ \E c \in Calls : TransportFails(c)
  \/ \E c \in Calls : BodyUnparseable(c)
  \/ \E c \in Calls : \E data \in JsonBodies : BodyParses(c, data)
  \/ \E c \in Calls : LowLevelHandlerResume(c)
  \/ \E c \in Calls : Respond(c)

LowLevelSpec == Init /\ [][NextLowLevel]_vars

(***************************************************************************)
(* Properties.                                                             *)
(***************************************************************************)
\* An argument as the tool's contract wants it: a non-empty string.
NonEmptyString(v) == v.t = "string" /\ v.s # <<>>

ValidArgs(args) ==
  NonEmptyString(args.db_id) /\ NonEmptyString(args.natural_language_request)

\* The adapter has handed a value back (and the handler may have used it).
Returned(c) ==
  call[c].pc = "returned" \/ (call[c].pc = "done" /\ call[c].invoked > 0 /\ call[c].thrownAt # "entry")

IsObject(v) == v.t = "object"

\* success: true with agent_response, query and data_result all present.
FullSuccess(v) ==
  /\ IsObject(v)
  /\ v.f["success"] = B(TRUE)
  /\ v.f["agent_response"] # Undef /\ v.f["query"] # Undef /\ v.f["data_result"] # Undef

\* success: false with error and error_code both present.
FullFailure(v) ==
  /\ IsObject(v)
  /\ v.f["success"] = B(FALSE)
  /\ v.f["error"] # Undef /\ v.f["error_code"] # Undef

\* C1: a call whose db_id or natural_language_request is missing, empty or not
\* a string never invokes queryBlazeSQL and issues no HTTP request.
C1_InvalidArgsNeverReachAdapter ==
  \A c \in Calls :
    (call[c].pc # "idle" /\ ~ValidArgs(call[c].args))
      => (call[c].invoked = 0 /\ call[c].posts = 0)

C3_TimeoutGives504 ==
  \A c \in Calls :
    (Returned(c) /\ ValidArgs(call[c].args) /\ call[c].thrown = "AbortError")
      => /\ FullFailure(call[c].outcome)
         /\ call[c].outcome.f["error_code"] = N(504)
         /\ Contains(ToStr(call[c].outcome.f["error"]), <<"Request timed out after ", "1", "2", "0">>)

\* C4: a call with valid arguments invokes the adapter exactly once and the
\* adapter issues exactly one POST, whatever the outcome.
C4_ExactlyOneAttempt ==
  \A c \in Calls :
    (call[c].pc # "idle" /\ ValidArgs(call[c].args))
      => (call[c].invoked = 1 /\ call[c].posts = 1)

\* C4 witness: a valid call finished after the timeout fired, with one POST sent.
C4_Witness ==
  \E c \in Calls :
    /\ call[c].pc = "done" /\ ValidArgs(call[c].args)
    /\ call[c].thrown = "AbortError" /\ call[c].posts = 1

\* C5: every value the adapter returns is a full Success or a full Failure,
\* for every remote response body.
C5_OutcomeNeverPartial ==
  \A c \in Calls :
    (Returned(c) /\ ValidArgs(call[c].args))
      => (FullSuccess(call[c].outcome) \/ FullFailure(call[c].outcome))

\* C6: a call whose db_id or natural_language_request is missing, empty or not
\* a string ends with the local validation error, not with a result built
\* from the adapter's outcome.
C6_InvalidArgsGetValidationError ==
  \A c \in Calls :
    (call[c].pc = "done" /\ ~ValidArgs(call[c].args))
      => (call[c].result.kind = "invalid_params" /\ call[c].result.isError)

C8_ExpectedText ==
  <<"**Agent Response:**", "\n", "Two cities.", "\n", "\n",
    "**Generated SQL:**", "\n", Fence, "sql", "\n", "SELECT 1", "\n", Fence, "\n", "\n",
    "**Data Result (JSON):**", "\n", Fence, "json", "\n",
    "{", "\n",
    "  ", "\"", "city", "\"", ": ", "[", "\n",
    "  ", "  ", "\"", "NYC", "\"", ",", "\n",
    "  ", "  ", "null", "\n",
    "  ", "]", ",", "\n",
    "  ", "\"", "n", "\"", ": ", "[", "\n",
    "  ", "  ", "1", ",", "\n",
    "  ", "  ", "2", "5", "\n",
    "  ", "]", "\n",
    "}", "\n", Fence, "\n">>

\* C8: on a success status with a success body the handler returns a result
\* not flagged as error, with one text block holding, in this order, the
\* summary, the query in a sql fence and the data result as indented JSON in
\* a json fence.
C8_SuccessIsFormattedInOrder ==
  \A c \in Calls :
    (call[c].pc = "done" /\ ResponseOk(call[c].status) /\ FullSuccess(call[c].body))
      => LET r == call[c].result
             text == r.content[1].text
             b == call[c].body.f
             summary == IndexOf(text, <<"**Agent Response:**", "\n">> \o ToStr(b["agent_response"]))
             sql == IndexOf(text, <<Fence, "sql", "\n">> \o ToStr(b["query"]) \o <<"\n", Fence, "\n">>)
             json == IndexOf(text, <<Fence, "json", "\n">>)
         IN /\ r.kind = "result" /\ ~r.isError
            /\ Len(r.content) = 1 /\ r.content[1].type = "text"
            /\ 0 < summary /\ summary < sql /\ sql < json
            /\ (call[c].body = SuccessBody => text = C8_ExpectedText)

\* C8 witness: a 200 response with the full success body produced the documented text.
C8_Witness ==
  \E c \in Calls :
    /\ call[c].pc = "done" /\ call[c].status = 200 /\ call[c].body = SuccessBody
    /\ call[c].result.content[1].text = C8_ExpectedText

\* C9 as stated: on a non-success status with a parseable body
\* {error: X, error_code: C} the adapter returns Failure with message X and
\* code C, whatever X, C and the status are.
C9_ErrorBodyPassedThrough ==
  \A c \in Calls :
    (Returned(c) /\ call[c].status # 0 /\ ~ResponseOk(call[c].status)
       /\ IsObject(call[c].body)
       /\ call[c].body.f["error"] # Undef /\ call[c].body.f["error_code"] # Undef)
      => /\ FullFailure(call[c].outcome)
         /\ call[c].outcome.f["error"] = call[c].body.f["error"]
         /\ call[c].outcome.f["error_code"] = call[c].body.f["error_code"]

\* C9 as amended: the same for a non-empty X and a non-zero C; an empty error
\* or a zero error_code is replaced by the fallback tied to the status.
C9_TruthyErrorBodyPassedThrough ==
  \A c \in Calls :
    (Returned(c) /\ call[c].status # 0 /\ ~ResponseOk(call[c].status)
       /\ IsObject(call[c].body)
       /\ Truthy(call[c].body.f["error"]) /\ Truthy(call[c].body.f["error_code"]))
      => /\ FullFailure(call[c].outcome)
         /\ call[c].outcome.f["error"] = call[c].body.f["error"]
         /\ call[c].outcome.f["error_code"] = call[c].body.f["error_code"]

\* C9 witness: status 500 with body {error: "X", error_code: 403} gave Failure("X", 403).
C9_Witness ==
  \E c \in Calls :
    /\ call[c].pc = "returned" /\ call[c].status = 500 /\ call[c].body = ErrorBody
    /\ call[c].outcome = Failure(S(<<"X">>), N(403))

C11_LocalCodesTellTimeoutApart ==
  \A c \in Calls :
    (Returned(c) /\ ValidArgs(call[c].args) /\ call[c].thrown # "none")
      => /\ FullFailure(call[c].outcome)
         /\ (call[c].thrown # AbortErr.name /\ call[c].thrownAt \in {"awaitFetch", "awaitJson"})
              => call[c].outcome.f["error_code"] = N(500)
         /\ call[c].outcome.f["error_code"] = N(504) => call[c].thrown = AbortErr.name
         /\ call[c].outcome.f["error_code"] = N(500) => call[c].thrown # AbortErr.name

\* C12: a call that reached the adapter and has completed carries one
\* well-formed outcome, and its result is a tool result whose error flag is
\* the negation of the outcome's success.
C12_CompletedCallHasWellFormedResult ==
  \A c \in Calls :
    (call[c].pc = "done" /\ ValidArgs(call[c].args) /\ call[c].invoked > 0)
      => /\ FullSuccess(call[c].outcome) \/ FullFailure(call[c].outcome)
         /\ call[c].result.kind = "result"
         /\ call[c].result.isError = ~Truthy(call[c].outcome.f["success"])

\* C13: no step taken while serving ends the process, and the process exits
\* only through the missing-credential check.
C13_OnlyMissingKeyExits ==
  [][/\ proc = "serving" => proc' = "serving"
     /\ (proc # "exited" /\ proc' = "exited") => ~Truthy(apiKey)]_vars

\* C13 as amended: no step taken while serving ends the process; the process
\* exits only before it serves, with no call started: on the missing
\* credential or when connecting the transport fails.
C13_OnlyStartupExits ==
  [][/\ proc = "serving" => proc' = "serving"
     /\ (proc # "exited" /\ proc' = "exited")
          => /\ proc \in {"starting", "registered"}
             /\ \A c \in Calls : call[c] = Idle
             /\ (proc = "starting" <=> ~Truthy(apiKey))]_vars

\* C13 witness: one call was refused as invalid, another ended with a thrown
\* error, and the process is serving.
C13_Witness ==
  /\ proc = "serving"
  /\ \E c, d \in Calls :
       /\ call[c].pc = "done" /\ call[c].result.kind = "invalid_params"
       /\ call[d].pc = "done" /\ call[d].result.kind = "throw"

\* C14: with BLAZE_API_KEY absent or empty the process never gets past the
\* startup check: the tool is not registered, the transport is not connected,
\* no call is taken and no request is sent.
C14_MissingKeyNeverServes ==
  ~Truthy(apiKey)
    => /\ proc \in {"starting", "exited"}
       /\ bootLog \in {<<>>, MissingKeyLog}
       /\ \A c \in Calls : call[c] = Idle

\* C14 witness: the process started with an empty key and has exited.
C14_Witness == apiKey = S(<<>>) /\ proc = "exited" /\ bootLog = MissingKeyLog

\* What the handler makes of its own remote exchange, for a call that is done.
OwnExchange(r) == <<r.args, r.status, r.body, r.thrown, r.thrownAt>>

\* C15: the credential never changes, every call uses it, a step of one call
\* leaves every other call as it was, and two completed calls with the same
\* arguments and the same remote exchange have the same outcome and result,
\* whatever ran in between.
C15_InvocationsIndependent ==
  [][/\ apiKey' = apiKey
     /\ \A c \in Calls : call'[c].invoked > 0 => call'[c].key = apiKey
     /\ \A c, d \in Calls : (c # d /\ call'[c] # call[c]) => call'[d] = call[d]
     /\ \A c, d \in Calls :
          (call'[c].pc = "done" /\ call'[d].pc = "done"
             /\ OwnExchange(call'[c]) = OwnExchange(call'[d]))
            => /\ call'[c].outcome = call'[d].outcome
               /\ call'[c].result = call'[d].result]_vars

\* C15 witness: two calls with the same arguments are done, one with a success
\* result and one with an error result.
C15_Witness ==
  \E c, d \in Calls :
    /\ call[c].pc = "done" /\ call[d].pc = "done" /\ call[c].args = call[d].args
    /\ ValidArgs(call[c].args)
    /\ call[c].result.kind = "result" /\ ~call[c].result.isError
    /\ call[d].result.kind = "result" /\ call[d].result.isError

\* What the remote did to a call of the adapter.
RemoteBehaviour(r) == <<r.status, r.body, r.thrown, r.thrownAt>>

\* C16: every call of the adapter that returned sent its own single request,
\* and two calls with identical arguments and key that met the same remote
\* behaviour returned equal outcomes.
C16_RepeatedCallSameOutcome ==
  /\ \A c \in Calls : call[c].pc = "returned" => (call[c].posts = 1 /\ call[c].sent # <<>>)
  /\ \A c, d \in Calls :
       (call[c].pc = "returned" /\ call[d].pc = "returned"
          /\ call[c].args = call[d].args /\ call[c].key = call[d].key
          /\ RemoteBehaviour(call[c]) = RemoteBehaviour(call[d]))
         => call[c].outcome = call[d].outcome

\* C16 witness: two calls with the same arguments and key both got the success
\* body on status 200, each over its own request, and returned the same outcome.
C16_Witness ==
  \E c, d \in Calls :
    /\ c # d
    /\ call[c].pc = "returned" /\ call[d].pc = "returned"
    /\ call[c].args = call[d].args /\ call[c].key = call[d].key
    /\ call[c].status = 200 /\ call[d].status = 200
    /\ call[c].body = SuccessBody /\ call[d].body = SuccessBody
    /\ call[c].posts = 1 /\ call[d].posts = 1
    /\ call[c].outcome = call[d].outcome

\* Whether some line of log holds the tokens of key.
LogHolds(log, key) == \E i \in 1..Len(log) : Contains(log[i], key.s)

\* C17: no line logged at startup or during a call holds the API key.
C17_KeyNeverLogged ==
  /\ Truthy(apiKey) => ~LogHolds(bootLog, apiKey)
  /\ \A c \in Calls : Truthy(call[c].key) => ~LogHolds(call[c].log, call[c].key)

\* C17 witness: a call has sent the key in its request, has completed with an
\* error from the remote and has logged five lines.
C17_Witness ==
  /\ Len(bootLog) = 5
  /\ \E c \in Calls :
       /\ call[c].pc = "done" /\ Contains(call[c].sent, apiKey.s)
       /\ call[c].status = 403 /\ call[c].body = ErrorBody
       /\ Len(call[c].log) = 5

C19_RequestCarriesArgsAndKey ==
  \A c \in Calls :
    (call[c].posts > 0 /\ ValidArgs(call[c].args))
      => /\ call[c].posts = 1
         /\ call[c].req.db_id = call[c].args.db_id
         /\ call[c].req.natural_language_request = call[c].args.natural_language_request
         /\ call[c].req.api_key = apiKey
         /\ call[c].sent
              = <<"{", "\"", "db_id", "\"", ":", "\"">> \o call[c].args.db_id.s
                  \o <<"\"", ",", "\"", "natural_language_request", "\"", ":", "\"">>
                  \o call[c].args.natural_language_request.s
                  \o <<"\"", ",", "\"", "api_key", "\"", ":", "\"">> \o apiKey.s
                  \o <<"\"", "}">>

\* C19 witness: a call with db_id "db1" and request "q1" has its request out.
C19_Witness ==
  \E c \in Calls :
    /\ call[c].pc = "awaitFetch" /\ call[c].posts = 1
    /\ call[c].args = [db_id |-> S(<<"db1">>), natural_language_request |-> S(<<"q1">>)]
    /\ call[c].req.api_key = S(<<"sk-1">>)

\* C20: no invocation suspends more than once.
C20_AtMostOneSuspendPoint == \A c \in Calls : call[c].waits <= 1

\* C20 as amended: an invocation suspends at most twice, first on the wait for
\* the response and then on the wait for its body.
C20_AtMostTwoSuspendPoints ==
  \A c \in Calls :
    /\ call[c].waits <= 2
    /\ call[c].pc = "awaitFetch" => call[c].waits = 1
    /\ call[c].pc \in {"awaitErrJson", "awaitJson"} => call[c].waits = 2
    /\ call[c].pc \in {"idle", "rejected"} => call[c].waits = 0

\* C20 witness: one call is in its second wait, for the body, while another
\* call, started meanwhile, is in its first.
C20_Witness ==
  \E c, d \in Calls :
    /\ call[c].pc = "awaitJson" /\ call[c].waits = 2
    /\ call[d].pc = "awaitFetch" /\ call[d].waits = 1

\* C21: on a non-success status S with a body that parsed to an object, the
\* Failure's message is the body's error when it has one (non-empty) and
\* otherwise a fallback mentioning S, and its code is the body's error_code
\* when it has one (non-zero) and otherwise S, each chosen on its own.
C21_FallbacksAreIndependent ==
  \A c \in Calls :
    (Returned(c) /\ call[c].status # 0 /\ ~ResponseOk(call[c].status)
       /\ IsObject(call[c].body))
      => /\ FullFailure(call[c].outcome)
         /\ IF Truthy(call[c].body.f["error"])
            THEN call[c].outcome.f["error"] = call[c].body.f["error"]
            ELSE /\ call[c].outcome.f["error"].t = "string"
                 /\ Contains(call[c].outcome.f["error"].s, NumStr(call[c].status))
         /\ IF Truthy(call[c].body.f["error_code"])
            THEN call[c].outcome.f["error_code"] = call[c].body.f["error_code"]
            ELSE call[c].outcome.f["error_code"] = N(call[c].status)

\* C21 witness: on status 500 a body with only an error gave that error with
\* code 500, and a body with only a code gave the fallback message with that code.
C21_Witness ==
  \E c, d \in Calls :
    /\ call[c].pc = "returned" /\ call[c].status = 500 /\ call[c].body = ErrorOnlyBody
    /\ call[c].outcome = Failure(S(<<"X">>), N(500))
    /\ call[d].pc = "returned" /\ call[d].status = 500 /\ call[d].body = CodeOnlyBody
    /\ call[d].outcome = Failure(S(<<"HTTP error! status: ", "5", "0", "0">>), N(403))

\* The value the adapter returned was built by the adapter: by the non-success
\* branch or by one of its catch blocks.
BuiltByAdapter(c) ==
  Returned(c) /\ (call[c].thrown # "none" \/ (call[c].status # 0 /\ ~ResponseOk(call[c].status)))

\* C22: every Failure built by the adapter has success false, a non-empty
\* string as its message and a non-zero number as its code.
C22_BuiltFailureIsWellTyped ==
  \A c \in Calls :
    (BuiltByAdapter(c) /\ ValidArgs(call[c].args))
      => /\ IsObject(call[c].outcome)
         /\ call[c].outcome.f["success"] = B(FALSE)
         /\ NonEmptyString(call[c].outcome.f["error"])
         /\ call[c].outcome.f["error_code"].t = "number"
         /\ call[c].outcome.f["error_code"].n # 0

\* The text for a success body with the summary "Two cities." and neither
\* query nor data_result, written out token by token.
C23_ExpectedText ==
  <<"**Agent Response:**", "\n", "Two cities.", "\n", "\n",
    "**Generated SQL:**", "\n", Fence, "sql", "\n", "-- No SQL query returned", "\n",
    Fence, "\n", "\n",
    "**Data Result (JSON):**", "\n", Fence, "json", "\n", "{}", "\n", Fence, "\n">>

\* C23: a success outcome without query or without data_result still ends in
\* a result not flagged as error whose text has the three labelled sections
\* in order, with the placeholder for a missing query, {} for a missing data
\* result, and the outcome's own value for the one that is there.
C23_MissingFieldsGetDefaults ==
  \A c \in Calls :
    (call[c].pc = "done" /\ ResponseOk(call[c].status) /\ IsObject(call[c].body)
       /\ call[c].body.f["success"] = B(TRUE)
       /\ (call[c].body.f["query"] = Undef \/ call[c].body.f["data_result"] = Undef))
      => LET r == call[c].result
             text == r.content[1].text
             b == call[c].body.f
             summary == IndexOf(text, <<"**Agent Response:**", "\n">>)
             sql == IndexOf(text, <<"**Generated SQL:**", "\n", Fence, "sql", "\n">>)
             json == IndexOf(text, <<"**Data Result (JSON):**", "\n", Fence, "json", "\n">>)
             shownQuery == IF b["query"] = Undef THEN <<"-- No SQL query returned">>
                           ELSE b["query"].s
             shownData == IF b["data_result"] = Undef THEN <<"{}">>
                          ELSE JsonPretty(b["data_result"])
         IN /\ r.kind = "result" /\ ~r.isError
            /\ Len(r.content) = 1 /\ r.content[1].type = "text"
            /\ 0 < summary /\ summary < sql /\ sql < json
            /\ Contains(text, <<Fence, "sql", "\n">> \o shownQuery \o <<"\n", Fence, "\n">>)
            /\ Contains(text, <<Fence, "json", "\n">> \o shownData \o <<"\n", Fence, "\n">>)
            /\ (call[c].body = PartialSuccessBody => text = C23_ExpectedText)

\* C23 witness: one call got a success body with neither field and ended with
\* the text holding both defaults; another got a success body without query only.
C23_Witness ==
  \E c, d \in Calls :
    /\ call[c].pc = "done" /\ call[c].status = 200 /\ call[c].body = PartialSuccessBody
    /\ call[c].result = ToolResult(C23_ExpectedText, FALSE)
    /\ call[d].pc = "done" /\ call[d].status = 200 /\ call[d].body = NoQueryBody
    /\ ~call[d].result.isError

\* C24: in the low-level variant a call for a tool other than blazesql_query
\* ends at once with the not-handled error, whatever its arguments: none of
\* them is read, the adapter is not invoked and nothing is sent.
C24_UnknownToolRejectedFirst ==
  \A c \in Calls :
    (call[c].tool # "none" /\ call[c].tool # ToolName)
      => /\ call[c].pc = "done"
         /\ call[c].result = NotHandled(call[c].tool)
         /\ call[c].args = NoArgs
         /\ call[c].invoked = 0 /\ call[c].posts = 0
         /\ call[c].sent = <<>> /\ call[c].waits = 0

\* C24 witness: a call for other_tool has been rejected while a call for
\* blazesql_query has its request out.
C24_Witness ==
  \E c, d \in Calls :
    /\ call[c].tool = "other_tool" /\ call[c].pc = "done" /\ call[c].result.kind = "throw"
    /\ call[d].tool = ToolName /\ call[d].pc = "awaitFetch" /\ call[d].posts = 1

====
